---- MODULE Spec2Model ----
(***************************************************************************)
(* A model of the learning-management core of CURRALMS: quiz grading and  *)
(* attempt recording (routers/quiz.py, crud/quiz.py, services/grading.py), *)
(* course progress recomputation (services/progress_service.py),          *)
(* enrollment (routers/courses.py, crud/course.py,                        *)
(* services/course_progression.py) and deadline-bound assignment          *)
(* submission (routers/assignment.py, crud/assignment.py).                *)
(*                                                                         *)
(* The MongoDB collections are the state.  A request handler is a         *)
(* sequence of steps, one per awaited store operation; handlers of        *)
(* different requests interleave at those steps.                           *)
(***************************************************************************)
EXTENDS Integers, Sequences, FiniteSets, TLC

VARIABLES
    quizzes,                \* db.quizzes: quiz id -> document (absent, present, deleted)
    quiz_questions,         \* db.quiz_questions: quiz id -> its question documents
    user_quiz_completions,  \* db.user_quiz_completions, in insertion order
    enrollments,            \* db.enrollments, in insertion order
    assignments,            \* db.assignments: assignment id -> document (absent, present)
    submissions,            \* db.submissions, in insertion order
    late_approvals,         \* db.late_approvals, in insertion order
    extension_requests,     \* db.extension_requests, in insertion order
    clock,                  \* the wall clock (datetime.utcnow / datetime.now)
    pc,                     \* per request slot: the store operation it is about to run
    local,                  \* per request slot: the handler's local variables
    last_call,              \* the most recently completed call and its response
    direct_recomputes,      \* number of get_course_progress calls made outside submit_quiz
    submit_calls            \* number of submit_quiz calls that found their quiz

vars == << quizzes, quiz_questions, user_quiz_completions, enrollments,
           assignments, submissions, late_approvals, extension_requests,
           clock, pc, local, last_call, direct_recomputes, submit_calls >>

quizVars == << quizzes, quiz_questions, user_quiz_completions >>
assignVars == << assignments, submissions, late_approvals, extension_requests >>

-----------------------------------------------------------------------------
(* Bounds of the model.                                                    *)

MaxSubmits == 2         \* submit_quiz calls that reach grading
MaxRecompute == 2       \* get_course_progress calls made outside submit_quiz
MaxClock == 3           \* the clock runs 0 .. MaxClock
MaxQuestions == 4       \* questions of a quiz
MaxApprovals == 3       \* late approvals stored before the approve-late calls
MaxRequests == 2        \* extension requests
MaxTests == 2           \* test cases of a coding question

-----------------------------------------------------------------------------
(* Identifiers.                                                            *)

Procs == {"p1", "p2"}
Users == {"u1"}
Courses == {"c1", "c2"}
QuizIds == {"q1", "q2"}
AssignmentIds == {"a1", "a2"}

\* An id under which db.courses holds no document; the courses of Courses exist.
MissingCourse == "c9"
CourseExists(c) == c \in Courses

None == "None"                  \* Python's None in a result dictionary

-----------------------------------------------------------------------------
(* Strings are sequences of characters, so that strip(), lower() and the   *)
(* substring test are computed.                                            *)

Lower(ch) == CASE ch = "A" -> "a"
               [] ch = "B" -> "b"
               [] ch = "T" -> "t"
               [] OTHER -> ch

lower(s) == [i \in 1..Len(s) |-> Lower(s[i])]

IsSpace(ch) == ch = " "

RECURSIVE lstrip(_)
lstrip(s) == IF s # << >> /\ IsSpace(Head(s)) THEN lstrip(Tail(s)) ELSE s

RECURSIVE rstrip(_)
rstrip(s) == IF s # << >> /\ IsSpace(s[Len(s)])
             THEN rstrip(SubSeq(s, 1, Len(s) - 1)) ELSE s

strip(s) == rstrip(lstrip(s))

\* Python's `needle in haystack` on strings
Contains(haystack, needle) ==
    \E i \in 0..(Len(haystack) - Len(needle)) :
        SubSeq(haystack, i + 1, i + Len(needle)) = needle

-----------------------------------------------------------------------------
(* services/grading.py                                                     *)

grade_multiple_choice(user_answer, correct_answer) ==
    lower(strip(user_answer)) = lower(strip(correct_answer))

grade_true_false(user_answer, correct_answer) ==
    lower(user_answer) = lower(correct_answer)

RECURSIVE CountTrue(_)
CountTrue(bs) == IF bs = << >> THEN 0
                 ELSE (IF Head(bs) THEN 1 ELSE 0) + CountTrue(Tail(bs))

\* An expected_output that is not a string (test_cases is List[Dict[str, Any]]):
\* expected_output.lower() raises AttributeError.
NotAString == << "<not a str>" >>

\* A grading that passes a question as soon as one test case succeeds.
grade_coding_any(user_code, test_cases) ==
    LET results == [i \in 1..Len(test_cases) |->
                        Contains(lower(user_code), lower(test_cases[i]))]
        passed_tests == CountTrue(results)
        total_tests == Len(test_cases)
    IN  [ passed |-> passed_tests > 0,
          score_num |-> IF total_tests > 0 THEN passed_tests * 100 ELSE 0,
          score_den |-> IF total_tests > 0 THEN total_tests ELSE 1,
          passed_tests |-> passed_tests,
          total_tests |-> total_tests,
          details |-> results ]

\* test_cases is a sequence of expected outputs (the expected_output of each
\* test case, '' when the key is missing); the except clause returns the
\* error result when one of them is not a string.
grade_coding_question(user_code, test_cases) ==
    IF \E i \in 1..Len(test_cases) : test_cases[i] = NotAString
    THEN [ passed |-> FALSE, score_num |-> 0, score_den |-> 1,
           passed_tests |-> 0, total_tests |-> 0, details |-> << >> ]
    ELSE
    LET results == [i \in 1..Len(test_cases) |->
                        Contains(lower(user_code), lower(test_cases[i]))]
        passed_tests == CountTrue(results)
        total_tests == Len(test_cases)
    IN  [ passed |-> passed_tests = total_tests,
          score_num |-> IF total_tests > 0 THEN passed_tests * 100 ELSE 0,
          score_den |-> IF total_tests > 0 THEN total_tests ELSE 1,
          passed_tests |-> passed_tests,
          total_tests |-> total_tests,
          details |-> results ]

\* The result dictionary of grade_question; a key the code does not set is None.
grade_question(question_type, user_answer, correct_answer, test_cases) ==
    IF question_type = "multiple_choice"
    THEN [ correct |-> grade_multiple_choice(user_answer, correct_answer),
           passed |-> None, details |-> None ]
    ELSE IF question_type = "true_false"
    THEN [ correct |-> grade_true_false(user_answer, correct_answer),
           passed |-> None, details |-> None ]
    ELSE IF question_type = "coding"
    THEN LET r == grade_coding_question(user_answer, test_cases)
         IN  [ correct |-> None, passed |-> r.passed, details |-> r.details ]
    ELSE [ correct |-> FALSE, passed |-> None, details |-> "Unknown question type" ]

-----------------------------------------------------------------------------
(* Numbers.  A progress percentage is kept exactly, in units of 1/PUnit    *)
(* percent: every recomputation halves once, and at most MaxSubmits +     *)
(* MaxRecompute recomputations run.  A quiz score correct/N*100 is kept    *)
(* exactly in units of 1/(100*ScoreDen) percent, ScoreDen a common         *)
(* multiple of every N; a passing score is in hundredths of a percent.     *)

RECURSIVE Pow2(_)
Pow2(n) == IF n = 0 THEN 1 ELSE 2 * Pow2(n - 1)

RECURSIVE Factorial(_)
Factorial(n) == IF n <= 1 THEN 1 ELSE n * Factorial(n - 1)

PUnit == Pow2(MaxSubmits + MaxRecompute)
ScoreDen == Factorial(MaxQuestions)

Pct(x) == x * PUnit                       \* x percent as a progress value

Min(a, b) == IF a <= b THEN a ELSE b

\* round(x, 2) of x = num/den >= 0, in hundredths; ties go to the even digit
Round2(num, den) ==
    LET h == (num * 100) \div den
        r == (num * 100) % den
    IN  IF 2 * r > den THEN h + 1
        ELSE IF 2 * r < den THEN h
        ELSE IF h % 2 = 0 THEN h ELSE h + 1

-----------------------------------------------------------------------------
(* routers/quiz.py, submit_quiz: the grading loop and the score.           *)

\* The "details" of an entry: absent, or the per-test-case outcomes.
NoDetails == << "None" >>
TestDetails(results) ==
    [i \in 1..Len(results) |-> IF results[i] THEN "passed" ELSE "failed"]

\* The entry appended to detailed_results for one question, << >> when the
\* loop appends none; answers is the submitted dictionary.
QuestionResult(question, answers) ==
    IF question.id \notin DOMAIN answers
    THEN << [ question_id |-> question.id, question_type |-> question.question_type,
              result |-> "unanswered", details |-> NoDetails ] >>
    ELSE LET g == grade_question(question.question_type, answers[question.id],
                                 question.correct_answer, question.test_cases)
         IN  IF question.question_type \in {"multiple_choice", "true_false"}
             THEN << [ question_id |-> question.id,
                       question_type |-> question.question_type,
                       result |-> IF g.correct THEN "correct" ELSE "incorrect",
                       details |-> NoDetails ] >>
             ELSE IF question.question_type = "coding"
             THEN << [ question_id |-> question.id,
                       question_type |-> question.question_type,
                       result |-> IF g.passed THEN "passed" ELSE "failed",
                       details |-> TestDetails(g.details) ] >>
             ELSE << >>

\* A loop that gives the point for a question left unanswered as well.
CountsCorrectOrUnanswered(question, answers) ==
    \/ question.id \notin DOMAIN answers
    \/ LET g == grade_question(question.question_type, answers[question.id],
                               question.correct_answer, question.test_cases)
       IN  \/ /\ question.question_type \in {"multiple_choice", "true_false"}
              /\ g.correct
           \/ /\ question.question_type = "coding"
              /\ g.passed

\* Whether the loop adds one to correct_count for the question.
CountsCorrect(question, answers) ==
    /\ question.id \in DOMAIN answers
    /\ LET g == grade_question(question.question_type, answers[question.id],
                               question.correct_answer, question.test_cases)
       IN  \/ /\ question.question_type \in {"multiple_choice", "true_false"}
              /\ g.correct
           \/ /\ question.question_type = "coding"
              /\ g.passed

RECURSIVE GradeLoop(_, _)
GradeLoop(questions, answers) ==
    IF questions = << >> THEN [ correct_count |-> 0, detailed_results |-> << >> ]
    ELSE LET n == Len(questions)
             rest == GradeLoop(SubSeq(questions, 1, n - 1), answers)
         IN  [ correct_count |-> rest.correct_count
                                   + (IF CountsCorrect(questions[n], answers) THEN 1 ELSE 0),
               detailed_results |-> rest.detailed_results
                                      \o QuestionResult(questions[n], answers) ]

\* The score taken to whole percents by an integer division.
ScoreWholePercent(correct_count, n) == ((correct_count * 100) \div n) * 100 * ScoreDen

\* score = (correct_count / len(questions)) * 100, in units of 1/(100*ScoreDen)
Score(correct_count, n) == (correct_count * 100 * 100 * ScoreDen) \div n

\* passed = score >= quiz["passing_score"]
Passed(score, passing_score) == score >= passing_score * ScoreDen

\* round(score, 2), in hundredths
RoundedScore(score) == Round2(score, 100 * ScoreDen)

-----------------------------------------------------------------------------
(* Documents and the queries the code runs on the collections.             *)

AbsentQuiz == [ state |-> "absent", course_id |-> "", passing_score |-> 0 ]
AbsentAssignment == [ state |-> "absent", course_id |-> "", due_date |-> 0 ]

\* db.quizzes.find_one({"_id": quiz_id}) finds a document
QuizExists(q) == quizzes[q].state = "present"

\* db.quizzes.find({"course_id": course_id}): the quiz ids
CourseQuizIds(c) == { q \in QuizIds : QuizExists(q) /\ quizzes[q].course_id = c }

\* db.user_quiz_completions.count_documents({"user_id": u, "quiz_id": {"$in": qs}})
CountCompletions(u, qs) ==
    Cardinality({ i \in DOMAIN user_quiz_completions :
                    /\ user_quiz_completions[i].user_id = u
                    /\ user_quiz_completions[i].quiz_id \in qs })

\* The positions of the enrollments a query on user_id and course_id matches.
\* create_enrollment and get_user_enrollments query and store ObjectId values
\* ("oid"), get_course_progress queries and stores the strings ("str"); a
\* string never equals an ObjectId in a MongoDB query.
MatchingEnrollments(u, c, kt) ==
    { i \in DOMAIN enrollments : /\ enrollments[i].user_id = u
                                 /\ enrollments[i].course_id = c
                                 /\ enrollments[i].key_type = kt }

UserEnrollments(u, kt) ==
    { i \in DOMAIN enrollments : enrollments[i].user_id = u /\ enrollments[i].key_type = kt }

SetMin(S) == CHOOSE x \in S : \A y \in S : x <= y

\* The unique index on enrollments (user_id, course_id): an insert of a pair
\* that is stored with the same types of values raises DuplicateKeyError.
DuplicateKey(u, c, kt) == MatchingEnrollments(u, c, kt) # {}

-----------------------------------------------------------------------------
(* services/progress_service.py, get_course_progress: the computation.     *)

\* min(100, (completed_quizzes / total_quizzes) * 100) if total_quizzes > 0 else 0
QuizProgress(completed_quizzes, total_quizzes) ==
    IF total_quizzes > 0
    THEN Min(Pct(100), (completed_quizzes * Pct(100)) \div total_quizzes)
    ELSE 0

\* The two parts added, neither averaged nor capped.
OverallProgressSum(lesson_progress, quiz_progress, total_quizzes) ==
    IF total_quizzes > 0 THEN lesson_progress + quiz_progress ELSE lesson_progress

\* The lesson part alone, whether or not the course has quizzes.
OverallProgressLessonsOnly(lesson_progress, quiz_progress, total_quizzes) ==
    Min(Pct(100), lesson_progress)

\* overall_progress = min(100, (lesson_progress + quiz_progress) / 2), or
\* min(100, lesson_progress) for a course without quizzes
OverallProgress(lesson_progress, quiz_progress, total_quizzes) ==
    IF total_quizzes > 0
    THEN Min(Pct(100), (lesson_progress + quiz_progress) \div 2)
    ELSE Min(Pct(100), lesson_progress)

\* A status rule without the not_started case.
StatusOfStarted(overall_progress) ==
    IF overall_progress >= Pct(100) THEN "completed" ELSE "in_progress"

\* enrollment_status from overall_progress
StatusOf(overall_progress) ==
    IF overall_progress >= Pct(100) THEN "completed"
    ELSE IF overall_progress > 0 THEN "in_progress"
    ELSE "not_started"

-----------------------------------------------------------------------------
(* Request slots.                                                          *)

IdleLocal ==
    [ user_id |-> "", quiz_id |-> "", course_id |-> "", assignment_id |-> "",
      answers |-> << >>, passing_score |-> 0,
      correct_count |-> 0, score |-> 0, passed |-> FALSE, detailed_results |-> << >>,
      previous_attempts |-> 0, via |-> "",
      quiz_ids |-> {}, completed_quizzes |-> 0,
      lesson_progress |-> 0, due_date |-> 0, approved_until |-> 0,
      is_past_due |-> FALSE, approval |-> FALSE,
      questions |-> << >> ]

NoCall ==
    [ op |-> "none", user_id |-> "", target |-> "", code |-> 0, detail |-> "",
      score |-> 0, passed |-> FALSE, progress_error |-> FALSE,
      overall_progress |-> 0, lesson_progress |-> 0, quiz_progress |-> 0,
      completed_quizzes |-> 0, total_quizzes |-> 0, status |-> "",
      stored_progress |-> 0 ]

Response(op, u, target, code) ==
    [ NoCall EXCEPT !.op = op, !.user_id = u, !.target = target, !.code = code ]

\* An HTTPException with its detail.
Failure(op, u, target, code, detail) ==
    [ Response(op, u, target, code) EXCEPT !.detail = detail ]

\* The handler of slot p returns (or raises the HTTP error) with response r.
Return(p, r) ==
    /\ pc' = [pc EXCEPT ![p] = "idle"]
    /\ local' = [local EXCEPT ![p] = IdleLocal]
    /\ last_call' = r

Goto(p, label, loc) ==
    /\ pc' = [pc EXCEPT ![p] = label]
    /\ local' = [local EXCEPT ![p] = loc]
    /\ UNCHANGED last_call

Init ==
    /\ quizzes = [q \in QuizIds |-> AbsentQuiz]
    /\ quiz_questions = [q \in QuizIds |-> << >>]
    /\ user_quiz_completions = << >>
    /\ enrollments = << >>
    /\ assignments = [a \in AssignmentIds |-> AbsentAssignment]
    /\ submissions = << >>
    /\ late_approvals = << >>
    /\ extension_requests = << >>
    /\ clock = 0
    /\ pc = [p \in Procs |-> "idle"]
    /\ local = [p \in Procs |-> IdleLocal]
    /\ last_call = NoCall
    /\ direct_recomputes = 0
    /\ submit_calls = 0

-----------------------------------------------------------------------------
(* Inputs: question banks and answer sheets.                               *)

Question(id, type, correct_answer, test_cases) ==
    [ id |-> id, question_type |-> type,
      correct_answer |-> correct_answer, test_cases |-> test_cases ]

QuestionIds == << "k1", "k2", "k3", "k4", "k5" >>

\* The question set the instructor posts in the interleaved specifications.
MainQuestions ==
    << Question("k1", "multiple_choice", << "a" >>, << >>),
       Question("k2", "true_false", << "t" >>, << >>) >>

\* The sheet answering exactly the questions at the positions in `which`
\* with their correct answers.
CorrectSheet(questions, which) ==
    [ k \in { questions[i].id : i \in which } |->
        LET i == CHOOSE j \in which : questions[j].id = k
        IN  questions[i].correct_answer ]

\* The sheet submitted in the interleaved specifications: all but the first
\* question answered (correctly).
MainSheets(questions) ==
    { CorrectSheet(questions, DOMAIN questions \ {1}) }

MainPassingScores == { 7500 }

\* The question lists a quiz is created with; QuizCreate.questions may be empty.
MainQuestionSets == { MainQuestions, << >> }

\* Question sets of the grading specification: n questions whose types rotate
\* through multiple_choice, true_false and coding, starting at offset off.
GradeQuestion(i, off) ==
    LET kind == (i + off) % 3
    IN  IF kind = 0 THEN Question(QuestionIds[i], "multiple_choice", << "a" >>, << >>)
        ELSE IF kind = 1 THEN Question(QuestionIds[i], "true_false", << "t" >>, << >>)
        ELSE Question(QuestionIds[i], "coding", << >>, << << "a" >>, << "b" >> >>)

GradeQuestionSet(n, off) == [ i \in 1 .. n |-> GradeQuestion(i, off) ]

\* The answers a student may give to a question: for each type an exact one, one
\* differing in case or surrounding blanks, and a different one.
AnswerOptions(question) ==
    IF question.question_type = "multiple_choice"
    THEN << << "a" >>, << " ", "A", " " >>, << "b" >> >>
    ELSE IF question.question_type = "true_false"
    THEN << << "t" >>, << "T" >>, << " ", "t" >> >>
    ELSE << << "a", "b" >>, << "B", " ", "A" >>, << "a" >> >>

\* The sheet that leaves question i unanswered when choice[i] = 0 and else
\* answers it with its option choice[i].
GradeSheet(questions, choice) ==
    [ k \in { questions[i].id : i \in { j \in DOMAIN questions : choice[j] # 0 } } |->
        LET i == CHOOSE j \in DOMAIN questions : questions[j].id = k
        IN  AnswerOptions(questions[i])[choice[i]] ]

\* Passing scores, in hundredths of a percent.
GradePassingScores == { 0, 6667, 7500, 10000 }

-----------------------------------------------------------------------------
(* crud/quiz.py: create_quiz, delete_quiz.                                 *)

create_quiz(q, c, passing_score, questions) ==
    /\ quizzes[q].state = "absent"           \* quiz_id = str(uuid.uuid4()) is fresh
    /\ quizzes' = [quizzes EXCEPT ![q] =
                     [ state |-> "present", course_id |-> c,
                       passing_score |-> passing_score ]]
    /\ quiz_questions' = [quiz_questions EXCEPT ![q] = questions]
    /\ last_call' = Response("create_quiz", "", q, 200)
    /\ UNCHANGED << user_quiz_completions, enrollments, assignVars, clock,
                    pc, local, direct_recomputes, submit_calls >>

\* update_quiz: None (404) for a quiz that is not stored; otherwise update_one
\* sets the quiz fields, delete_many removes the questions of the quiz and
\* insert_many stores the new ones. user_quiz_completions is not touched.
update_quiz(q, c, passing_score, questions) ==
    /\ \/ /\ ~QuizExists(q)
          /\ UNCHANGED << quizzes, quiz_questions >>
          /\ last_call' = Failure("update_quiz", "", q, 404, "Quiz not found")
       \/ /\ QuizExists(q)
          /\ quizzes' = [quizzes EXCEPT ![q] =
                           [ state |-> "present", course_id |-> c,
                             passing_score |-> passing_score ]]
          /\ quiz_questions' = [quiz_questions EXCEPT ![q] = questions]
          /\ last_call' = Response("update_quiz", "", q, 200)
    /\ UNCHANGED << user_quiz_completions, enrollments, assignVars, clock,
                    pc, local, direct_recomputes, submit_calls >>

delete_quiz(q) ==
    /\ QuizExists(q)
    /\ quizzes' = [quizzes EXCEPT ![q] = [AbsentQuiz EXCEPT !.state = "deleted"]]
    /\ quiz_questions' = [quiz_questions EXCEPT ![q] = << >>]
    /\ user_quiz_completions' =
         LET Kept(d) == d.quiz_id # q
         IN  SelectSeq(user_quiz_completions, Kept)
    /\ last_call' = Response("delete_quiz", "", q, 200)
    /\ UNCHANGED << enrollments, assignVars, clock, pc, local,
                    direct_recomputes, submit_calls >>

-----------------------------------------------------------------------------
(* routers/quiz.py submit_quiz, crud/quiz.py create_quiz_completion.       *)

\* quiz = await quiz_crud.get_quiz_by_id(quiz_id)
SubmitQuiz_GetQuiz(p, u, q, answers) ==
    /\ pc[p] = "idle"
    /\ \/ /\ ~QuizExists(q)
          /\ Return(p, Response("submit_quiz", u, q, 404))
          /\ UNCHANGED submit_calls
       \/ /\ QuizExists(q)
          /\ submit_calls < MaxSubmits
          /\ submit_calls' = submit_calls + 1
          /\ Goto(p, "sq_questions",
                  [ IdleLocal EXCEPT !.user_id = u, !.quiz_id = q, !.answers = answers,
                                     !.passing_score = quizzes[q].passing_score ])
    /\ UNCHANGED << quizVars, enrollments, assignVars, clock, direct_recomputes >>

\* questions = await quiz_crud.get_quiz_questions(quiz_id), then the grading loop
SubmitQuiz_GetQuestions(p) ==
    /\ pc[p] = "sq_questions"
    /\ LET questions == quiz_questions[local[p].quiz_id]
           g == GradeLoop(questions, local[p].answers)
           score == Score(g.correct_count, Len(questions))
       IN  \/ /\ questions = << >>
              /\ Return(p, Response("submit_quiz", local[p].user_id, local[p].quiz_id, 400))
           \/ /\ questions # << >>
              /\ Goto(p, "sq_count",
                      [ local[p] EXCEPT !.correct_count = g.correct_count,
                                        !.score = score,
                                        !.passed = Passed(score, local[p].passing_score),
                                        !.detailed_results = g.detailed_results,
                                        !.answers = << >>,        \* not read again
                                        !.passing_score = 0 ])
    /\ UNCHANGED << quizVars, enrollments, assignVars, clock, direct_recomputes, submit_calls >>

\* previous_attempts = await db.user_quiz_completions.count_documents(...)
CreateQuizCompletion_Count(p) ==
    /\ pc[p] = "sq_count"
    /\ Goto(p, "sq_insert",
            [ local[p] EXCEPT !.previous_attempts =
                                  CountCompletions(local[p].user_id, {local[p].quiz_id}) ])
    /\ UNCHANGED << quizVars, enrollments, assignVars, clock, direct_recomputes, submit_calls >>

\* Numbering that starts at the count itself (attempts numbered from 0).
AttemptNumberFromZero(previous_attempts) == previous_attempts

\* attempt_number = previous_attempts + 1
AttemptNumber(previous_attempts) == previous_attempts + 1

\* await db.user_quiz_completions.insert_one(completion_doc)
CreateQuizCompletion_Insert(p) ==
    /\ pc[p] = "sq_insert"
    /\ user_quiz_completions' = Append(user_quiz_completions,
         [ user_id |-> local[p].user_id,
           quiz_id |-> local[p].quiz_id,
           score |-> local[p].score,
           attempt_number |-> AttemptNumber(local[p].previous_attempts),
           passed |-> local[p].passed,
           detailed_results |-> local[p].detailed_results ])
    /\ Goto(p, "up_quiz", [ local[p] EXCEPT !.via = "submit_quiz",
                                            !.previous_attempts = 0,   \* not read again
                                            !.correct_count = 0,
                                            !.detailed_results = << >> ])
    /\ UNCHANGED << quizzes, quiz_questions, enrollments, assignVars, clock,
                    direct_recomputes, submit_calls >>

-----------------------------------------------------------------------------
(* services/progress_service.py: update_course_progress_after_quiz and     *)
(* get_course_progress, one step per store operation.                      *)

\* A submit_quiz that returns after recording, without recomputing progress.
UpdateProgress_Skip(p) ==
    /\ pc[p] = "up_quiz"
    /\ Return(p, [ Response("submit_quiz", local[p].user_id, local[p].quiz_id, 200)
                     EXCEPT !.score = RoundedScore(local[p].score),
                            !.passed = local[p].passed ])
    /\ UNCHANGED << quizVars, enrollments, assignVars, clock, direct_recomputes, submit_calls >>

\* quiz = await self.quiz_crud.get_quiz_by_id(quiz_id)
UpdateProgress_GetQuiz(p) ==
    /\ pc[p] = "up_quiz"
    /\ \/ /\ ~QuizExists(local[p].quiz_id)      \* return {"error": "Quiz not found"}
          /\ Return(p, [ Response("submit_quiz", local[p].user_id, local[p].quiz_id, 200)
                           EXCEPT !.score = RoundedScore(local[p].score),
                                  !.passed = local[p].passed,
                                  !.progress_error = TRUE ])
       \/ /\ QuizExists(local[p].quiz_id)
          /\ Goto(p, "gcp_quizzes",
                  [ local[p] EXCEPT !.course_id = quizzes[local[p].quiz_id].course_id ])
    /\ UNCHANGED << quizVars, enrollments, assignVars, clock, direct_recomputes, submit_calls >>

\* get_course_progress called on its own (get_user_learning_analytics, or a caller
\* of the service)
GetCourseProgress_Call(p, u, c) ==
    /\ pc[p] = "idle"
    /\ direct_recomputes < MaxRecompute
    /\ direct_recomputes' = direct_recomputes + 1
    /\ Goto(p, "gcp_quizzes",
            [ IdleLocal EXCEPT !.user_id = u, !.course_id = c,
                               !.via = "get_course_progress" ])
    /\ UNCHANGED << quizVars, enrollments, assignVars, clock, submit_calls >>

\* course_quizzes = await db.quizzes.find({"course_id": course_id}).to_list(length=100)
GetCourseProgress_FindQuizzes(p) ==
    /\ pc[p] = "gcp_quizzes"
    /\ Goto(p, "gcp_count", [ local[p] EXCEPT !.quiz_ids = CourseQuizIds(local[p].course_id) ])
    /\ UNCHANGED << quizVars, enrollments, assignVars, clock, direct_recomputes, submit_calls >>

\* completed_quizzes = await db.user_quiz_completions.count_documents(...)
GetCourseProgress_Count(p) ==
    /\ pc[p] = "gcp_count"
    /\ Goto(p, "gcp_find",
            [ local[p] EXCEPT !.completed_quizzes =
                                  CountCompletions(local[p].user_id, local[p].quiz_ids) ])
    /\ UNCHANGED << quizVars, enrollments, assignVars, clock, direct_recomputes, submit_calls >>

\* enrollment = await db.enrollments.find_one({"user_id": user_id, "course_id": course_id})
GetCourseProgress_FindEnrollment(p) ==
    /\ pc[p] = "gcp_find"
    /\ LET found == MatchingEnrollments(local[p].user_id, local[p].course_id, "str")
       IN  \/ /\ found = {}
              /\ Goto(p, "gcp_insert", local[p])
           \/ /\ found # {}
              /\ Goto(p, "gcp_update",
                      [ local[p] EXCEPT !.lesson_progress =
                                            enrollments[SetMin(found)].progress_percentage ])
    /\ UNCHANGED << quizVars, enrollments, assignVars, clock, direct_recomputes, submit_calls >>

\* The enrollment get_course_progress creates when it finds none.
AutoEnrollment(u, c) ==
    [ user_id |-> u, course_id |-> c, key_type |-> "str",
      progress_percentage |-> 0, status |-> "in_progress" ]

\* await db.enrollments.insert_one(enrollment_data)
\* An insert whose duplicate-key error is not caught on the way back to
\* submit_quiz, and ends the request with a 500.
GetCourseProgress_InsertEnrollment_Raising(p) ==
    /\ pc[p] = "gcp_insert"
    /\ \/ /\ ~DuplicateKey(local[p].user_id, local[p].course_id, "str")
          /\ enrollments' = Append(enrollments,
                                   AutoEnrollment(local[p].user_id, local[p].course_id))
          /\ Goto(p, "gcp_update", [ local[p] EXCEPT !.lesson_progress = 0 ])
       \/ /\ DuplicateKey(local[p].user_id, local[p].course_id, "str")
          /\ UNCHANGED enrollments
          /\ Return(p, Response(local[p].via, local[p].user_id,
                                IF local[p].via = "submit_quiz"
                                THEN local[p].quiz_id ELSE local[p].course_id, 500))
    /\ UNCHANGED << quizVars, assignVars, clock, direct_recomputes, submit_calls >>

GetCourseProgress_InsertEnrollment(p) ==
    /\ pc[p] = "gcp_insert"
    /\ \/ /\ ~DuplicateKey(local[p].user_id, local[p].course_id, "str")
          /\ enrollments' = Append(enrollments,
                                   AutoEnrollment(local[p].user_id, local[p].course_id))
          /\ Goto(p, "gcp_update", [ local[p] EXCEPT !.lesson_progress = 0 ])
       \/ /\ DuplicateKey(local[p].user_id, local[p].course_id, "str")
          /\ UNCHANGED enrollments
          /\ IF local[p].via = "submit_quiz"
             THEN \* caught in update_course_progress_after_quiz: {"error": ...}
                  Return(p, [ Response("submit_quiz", local[p].user_id,
                                       local[p].quiz_id, 200)
                                EXCEPT !.score = RoundedScore(local[p].score),
                                       !.passed = local[p].passed,
                                       !.progress_error = TRUE ])
             ELSE Return(p, Response("get_course_progress", local[p].user_id,
                                     local[p].course_id, 500))
    /\ UNCHANGED << quizVars, assignVars, clock, direct_recomputes, submit_calls >>

\* The dictionary get_course_progress returns, as the response of the call.
ProgressResponse(loc, quiz_progress, overall_progress, status) ==
    [ Response(loc.via, loc.user_id,
               IF loc.via = "submit_quiz" THEN loc.quiz_id ELSE loc.course_id, 200)
        EXCEPT !.score = RoundedScore(loc.score),
               !.passed = loc.passed,
               !.overall_progress = Round2(overall_progress, PUnit),
               !.lesson_progress = Round2(loc.lesson_progress, PUnit),
               !.quiz_progress = Round2(quiz_progress, PUnit),
               !.completed_quizzes = loc.completed_quizzes,
               !.total_quizzes = Cardinality(loc.quiz_ids),
               !.status = status,
               !.stored_progress = overall_progress ]

\* await db.enrollments.update_one({"user_id": ..., "course_id": ...}, {"$set": ...})
GetCourseProgress_UpdateEnrollment(p) ==
    /\ pc[p] = "gcp_update"
    /\ LET total_quizzes == Cardinality(local[p].quiz_ids)
           quiz_progress == QuizProgress(local[p].completed_quizzes, total_quizzes)
           overall_progress == OverallProgress(local[p].lesson_progress, quiz_progress,
                                               total_quizzes)
           enrollment_status == StatusOf(overall_progress)
           found == MatchingEnrollments(local[p].user_id, local[p].course_id, "str")
       IN  /\ enrollments' =
                IF found = {} THEN enrollments
                ELSE [ enrollments EXCEPT ![SetMin(found)] =
                         [ @ EXCEPT !.progress_percentage = overall_progress,
                                    !.status = enrollment_status ] ]
           /\ Return(p, ProgressResponse(local[p], quiz_progress, overall_progress,
                                         enrollment_status))
    /\ UNCHANGED << quizVars, assignVars, clock, direct_recomputes, submit_calls >>

-----------------------------------------------------------------------------
(* routers/courses.py enroll_in_course, services/course_progression.py     *)
(* can_enroll_in_course, crud/course.py create_enrollment and              *)
(* update_enrollment.                                                      *)

\* can_enroll_in_course: the loop over get_user_enrollments reads
\* enrollment.course_id of a dict, which raises AttributeError on the first
\* enrollment; the except clause turns that into (False, "Error: ...").
CanEnroll(u, c) == UserEnrollments(u, "oid") = {}

Enroll_CanEnroll(p, u, c) ==
    /\ pc[p] = "idle"
    /\ \/ /\ ~CanEnroll(u, c)
          /\ Return(p, Response("enroll_in_course", u, c, 400))
       \/ /\ CanEnroll(u, c)
          /\ Goto(p, "en_find", [ IdleLocal EXCEPT !.user_id = u, !.course_id = c ])
    /\ UNCHANGED << quizVars, enrollments, assignVars, clock, direct_recomputes, submit_calls >>

\* create_enrollment: existing = await db.enrollments.find_one(...)
Enroll_FindExisting(p) ==
    /\ pc[p] = "en_find"
    /\ \/ /\ MatchingEnrollments(local[p].user_id, local[p].course_id, "oid") # {}
          /\ Return(p, Response("enroll_in_course", local[p].user_id, local[p].course_id, 201))
       \/ /\ MatchingEnrollments(local[p].user_id, local[p].course_id, "oid") = {}
          /\ Goto(p, "en_insert", local[p])
    /\ UNCHANGED << quizVars, enrollments, assignVars, clock, direct_recomputes, submit_calls >>

\* The enrollment create_enrollment inserts.
NewEnrollment(u, c) ==
    [ user_id |-> u, course_id |-> c, key_type |-> "oid",
      progress_percentage |-> 0, status |-> "enrolled" ]

\* result = await db.enrollments.insert_one(enrollment_dict)
Enroll_Insert(p) ==
    /\ pc[p] = "en_insert"
    /\ \/ /\ ~DuplicateKey(local[p].user_id, local[p].course_id, "oid")
          /\ enrollments' = Append(enrollments,
                                   NewEnrollment(local[p].user_id, local[p].course_id))
          /\ Return(p, Response("enroll_in_course", local[p].user_id,
                                local[p].course_id, 201))
       \/ /\ DuplicateKey(local[p].user_id, local[p].course_id, "oid")
          \* create_enrollment catches the error and returns None
          /\ UNCHANGED enrollments
          /\ Return(p, Failure("enroll_in_course", local[p].user_id, local[p].course_id,
                               500, "Failed to create enrollment"))
    /\ UNCHANGED << quizVars, assignVars, clock, direct_recomputes, submit_calls >>

\* Lesson progress values written through update_enrollment (percent), as
\* CourseProgressionService.update_progress computes them from the completed lessons.
LessonLevels == { 50, 100 }

\* crud/course.py update_enrollment with EnrollmentUpdate(progress_percentage=...)
update_enrollment(i, progress) ==
    /\ i \in DOMAIN enrollments
    /\ enrollments' = [ enrollments EXCEPT ![i].progress_percentage = Pct(progress) ]
    /\ last_call' = Response("update_enrollment", enrollments[i].user_id,
                             enrollments[i].course_id, 200)
    /\ UNCHANGED << quizVars, assignVars, clock, pc, local, direct_recomputes,
                    submit_calls >>

-----------------------------------------------------------------------------
(* routers/assignment.py and crud/assignment.py: assignments, late         *)
(* approvals and _create_submission.                                       *)

\* The clock advances; it may do so between any two store operations.
Tick ==
    /\ clock < MaxClock
    /\ clock' = clock + 1
    /\ UNCHANGED << quizVars, enrollments, assignVars, pc, local, last_call,
                    direct_recomputes, submit_calls >>

\* create_assignment: db.assignments.insert_one(assignment_data)
create_assignment(a, c, due_date) ==
    /\ assignments[a].state = "absent"        \* _id = ObjectId() is fresh
    /\ assignments' = [ assignments EXCEPT ![a] =
                          [ state |-> "present", course_id |-> c, due_date |-> due_date ] ]
    /\ last_call' = Response("create_assignment", "", a, 201)
    /\ UNCHANGED << quizVars, enrollments, submissions, late_approvals,
                    extension_requests, clock, pc, local, direct_recomputes, submit_calls >>

\* get_enrolled_courses: the course ids of the enrollments stored under
\* ObjectId(user_id)
get_enrolled_courses(u) == { enrollments[i].course_id : i \in UserEnrollments(u, "oid") }

\* A lookup that never finds the stored document.
SubmissionNeverFound(u, a) == FALSE

\* get_submission_by_user_and_assignment finds a document
SubmissionExists(u, a) ==
    \E i \in DOMAIN submissions :
       submissions[i].user_id = u /\ submissions[i].assignment_id = a

\* A query for approvals that ignores approved_until.
get_any_late_approval(u, a, now) ==
    \E i \in DOMAIN late_approvals :
       late_approvals[i].user_id = u /\ late_approvals[i].assignment_id = a

\* get_active_late_approval finds a document: approved_until > datetime.utcnow()
get_active_late_approval(u, a, now) ==
    \E i \in DOMAIN late_approvals :
       /\ late_approvals[i].user_id = u
       /\ late_approvals[i].assignment_id = a
       /\ late_approvals[i].approved_until > now

\* assignment = await get_assignment_by_id(assignment_id), and the course check
CreateSubmission_GetAssignment(p, u, c, a) ==
    /\ pc[p] = "idle"
    /\ \/ /\ assignments[a].state # "present"
          /\ Return(p, Failure("create_submission", u, a, 404, "Assignment not found"))
       \/ /\ assignments[a].state = "present"
          /\ assignments[a].course_id # c
          /\ Return(p, Failure("create_submission", u, a, 400,
                               "Assignment does not belong to the specified course"))
       \/ /\ assignments[a].state = "present"
          /\ assignments[a].course_id = c
          /\ Goto(p, "cs_enrolled",
                  [ IdleLocal EXCEPT !.user_id = u, !.course_id = c, !.assignment_id = a,
                                     !.due_date = assignments[a].due_date ])
    /\ UNCHANGED << quizVars, enrollments, assignVars, clock, direct_recomputes, submit_calls >>

\* enrolled_courses = await get_enrolled_courses(current_user.id)
CreateSubmission_GetEnrolledCourses(p) ==
    /\ pc[p] = "cs_enrolled"
    /\ \/ /\ local[p].course_id \notin get_enrolled_courses(local[p].user_id)
          /\ Return(p, Failure("create_submission", local[p].user_id,
                               local[p].assignment_id, 403, "Not enrolled in this course"))
       \/ /\ local[p].course_id \in get_enrolled_courses(local[p].user_id)
          /\ Goto(p, "cs_existing", local[p])
    /\ UNCHANGED << quizVars, enrollments, assignVars, clock, direct_recomputes, submit_calls >>

\* existing_submission = await get_submission_by_user_and_assignment(...)
CreateSubmission_FindExisting(p) ==
    /\ pc[p] = "cs_existing"
    /\ \/ /\ SubmissionExists(local[p].user_id, local[p].assignment_id)
          /\ Return(p, Failure("create_submission", local[p].user_id,
                               local[p].assignment_id, 400, "Assignment already submitted"))
       \/ /\ ~SubmissionExists(local[p].user_id, local[p].assignment_id)
          /\ Goto(p, "cs_due", local[p])
    /\ UNCHANGED << quizVars, enrollments, assignVars, clock, direct_recomputes, submit_calls >>

\* now = datetime.now(timezone.utc); is_past_due = now > due_date_aware
CreateSubmission_CheckDue(p) ==
    /\ pc[p] = "cs_due"
    /\ LET is_past_due == clock > local[p].due_date
       IN  Goto(p, IF is_past_due THEN "cs_approval" ELSE "cs_insert",
                [ local[p] EXCEPT !.is_past_due = is_past_due ])
    /\ UNCHANGED << quizVars, enrollments, assignVars, clock, direct_recomputes, submit_calls >>

\* approval = await get_active_late_approval(current_user.id, assignment_id)
CreateSubmission_GetApproval(p) ==
    /\ pc[p] = "cs_approval"
    /\ LET approval == get_active_late_approval(local[p].user_id,
                                                local[p].assignment_id, clock)
       IN  \/ /\ ~approval
              /\ Return(p, Failure("create_submission", local[p].user_id,
                                   local[p].assignment_id, 400,
                                   "Assignment is past due date and no active late submission approval found"))
           \/ /\ approval
              /\ Goto(p, "cs_insert", [ local[p] EXCEPT !.approval = TRUE ])
    /\ UNCHANGED << quizVars, enrollments, assignVars, clock, direct_recomputes, submit_calls >>

\* submission = await create_submission_crud(submission_data)
CreateSubmission_Insert(p) ==
    /\ pc[p] = "cs_insert"
    /\ submissions' = Append(submissions,
                             [ user_id |-> local[p].user_id,
                               assignment_id |-> local[p].assignment_id,
                               submitted_at |-> clock ])
    /\ Return(p, Response("create_submission", local[p].user_id, local[p].assignment_id, 200))
    /\ UNCHANGED << quizVars, enrollments, assignments, late_approvals, extension_requests,
                    clock, direct_recomputes, submit_calls >>

\* An approval that is added to the stored ones: nothing is removed first.
ApproveLate_KeepAll(p, u, a, approved_until) ==
    /\ pc[p] = "idle"
    /\ Goto(p, "al_insert",
            [ IdleLocal EXCEPT !.user_id = u, !.assignment_id = a,
                               !.approved_until = approved_until ])
    /\ UNCHANGED << quizVars, enrollments, assignVars, clock, direct_recomputes,
                    submit_calls >>

\* approve_late_submission, create_late_approval_crud: db.late_approvals.delete_many(...)
ApproveLate_DeleteMany(p, u, a, approved_until) ==
    /\ pc[p] = "idle"
    /\ late_approvals' =
         LET Other(d) == ~(d.user_id = u /\ d.assignment_id = a)
         IN  SelectSeq(late_approvals, Other)
    /\ Goto(p, "al_insert",
            [ IdleLocal EXCEPT !.user_id = u, !.assignment_id = a,
                               !.approved_until = approved_until ])
    /\ UNCHANGED << quizVars, enrollments, assignments, submissions, extension_requests,
                    clock, direct_recomputes, submit_calls >>

\* create_late_approval_crud: db.late_approvals.insert_one(approval_data)
ApproveLate_Insert(p) ==
    /\ pc[p] = "al_insert"
    /\ late_approvals' = Append(late_approvals,
                                [ user_id |-> local[p].user_id,
                                  assignment_id |-> local[p].assignment_id,
                                  approved_until |-> local[p].approved_until ])
    /\ Return(p, Response("approve_late_submission", local[p].user_id,
                          local[p].assignment_id, 200))
    /\ UNCHANGED << quizVars, enrollments, assignments, submissions, extension_requests,
                    clock, direct_recomputes, submit_calls >>

\* request_extension: the assignment must exist; create_extension_request_crud
\* inserts reason, requested_until, user_id, assignment_id and the timestamps.
\* No status is stored: a document without one reads as "pending", the default
\* of the ExtensionRequest model.
request_extension(u, a, requested_until) ==
    /\ Len(extension_requests) < MaxRequests
    /\ \/ /\ assignments[a].state # "present"
          /\ UNCHANGED extension_requests
          /\ last_call' = Failure("request_extension", u, a, 404, "Assignment not found")
       \/ /\ assignments[a].state = "present"
          /\ extension_requests' =
                Append(extension_requests,
                       [ user_id |-> u, assignment_id |-> a,
                         requested_until |-> requested_until,
                         status |-> None, updated_at |-> clock ])
          /\ last_call' = Response("request_extension", u, a, 200)
    /\ UNCHANGED << quizVars, enrollments, assignments, submissions, late_approvals,
                    clock, pc, local, direct_recomputes, submit_calls >>

ExtensionStatuses == { "approved", "rejected" }

\* An update that grants what an approved request asks for.
update_extension_request_granting(i, status) ==
    /\ i \in DOMAIN extension_requests
    /\ extension_requests' =
          [ extension_requests EXCEPT ![i].status = status, ![i].updated_at = clock ]
    /\ late_approvals' =
          IF status = "approved"
          THEN Append(late_approvals,
                      [ user_id |-> extension_requests[i].user_id,
                        assignment_id |-> extension_requests[i].assignment_id,
                        approved_until |-> extension_requests[i].requested_until ])
          ELSE late_approvals
    /\ last_call' = Response("update_extension_request", extension_requests[i].user_id,
                             extension_requests[i].assignment_id, 200)
    /\ UNCHANGED << quizVars, enrollments, assignments, submissions,
                    clock, pc, local, direct_recomputes, submit_calls >>

\* update_extension_request, update_extension_request_crud: update_one sets
\* status and updated_at of the request with that id; with an id that is not
\* stored nothing matches and the None that is fetched fails the response model.
update_extension_request(i, status) ==
    /\ \/ /\ i \in DOMAIN extension_requests
          /\ extension_requests' =
                [ extension_requests EXCEPT ![i].status = status,
                                            ![i].updated_at = clock ]
          /\ last_call' = Response("update_extension_request",
                                   extension_requests[i].user_id,
                                   extension_requests[i].assignment_id, 200)
       \/ /\ i \notin DOMAIN extension_requests
          /\ UNCHANGED extension_requests
          /\ last_call' = Response("update_extension_request", "", "", 500)
    /\ UNCHANGED << quizVars, enrollments, assignments, submissions, late_approvals,
                    clock, pc, local, direct_recomputes, submit_calls >>

-----------------------------------------------------------------------------
(* The quiz and progress subsystem.                                        *)

QuizAdmin(quizIds, courses) ==
    \/ \E q \in quizIds, c \in courses, ps \in MainPassingScores :
           \E questions \in MainQuestionSets : create_quiz(q, c, ps, questions)
    \/ \E q \in quizIds : delete_quiz(q)

SubmitStart(p, users, quizIds) ==
    \E u \in users, q \in quizIds :
       \E answers \in MainSheets(quiz_questions[q]) : SubmitQuiz_GetQuiz(p, u, q, answers)

RecomputeStart(p, users, courses) ==
    \E u \in users, c \in courses : GetCourseProgress_Call(p, u, c)

EnrollStart(p, users, courses) ==
    \E u \in users, c \in courses : Enroll_CanEnroll(p, u, c)

QuizStep(p) ==
    \/ SubmitQuiz_GetQuestions(p)
    \/ CreateQuizCompletion_Count(p)
    \/ CreateQuizCompletion_Insert(p)
    \/ UpdateProgress_GetQuiz(p)
    \/ GetCourseProgress_FindQuizzes(p)
    \/ GetCourseProgress_Count(p)
    \/ GetCourseProgress_FindEnrollment(p)
    \/ GetCourseProgress_InsertEnrollment(p)
    \/ GetCourseProgress_UpdateEnrollment(p)

EnrollStep(p) ==
    \/ Enroll_FindExisting(p)
    \/ Enroll_Insert(p)

\* A lesson completion: the percentage written is not below the stored one
\* (completed lessons only accumulate).
LessonUpdate ==
    \E i \in DOMAIN enrollments, x \in LessonLevels :
       /\ Pct(x) >= enrollments[i].progress_percentage
       /\ update_enrollment(i, x)

AllIdle == \A p \in Procs : pc[p] = "idle"

\* Sequential operation: a request starts only when no other is in flight.
Next ==
    \/ AllIdle /\ QuizAdmin(QuizIds, Courses)
    \/ AllIdle /\ LessonUpdate
    \/ AllIdle /\ SubmitStart("p1", Users, QuizIds)
    \/ AllIdle /\ RecomputeStart("p1", Users, Courses)
    \/ QuizStep("p1")

Spec == Init /\ [][Next]_vars

\* A course whose quizzes stay as they are: q1 and q2 belong to c1, c2 has none,
\* and no quiz is created or deleted.
InitStable ==
    /\ quizzes = [ q \in QuizIds |->
                     [ state |-> "present", course_id |-> "c1", passing_score |-> 7500 ] ]
    /\ quiz_questions = [ q \in QuizIds |-> MainQuestions ]
    /\ user_quiz_completions = << >>
    /\ enrollments = << >>
    /\ assignments = [a \in AssignmentIds |-> AbsentAssignment]
    /\ submissions = << >>
    /\ late_approvals = << >>
    /\ extension_requests = << >>
    /\ clock = 0
    /\ pc = [p \in Procs |-> "idle"]
    /\ local = [p \in Procs |-> IdleLocal]
    /\ last_call = NoCall
    /\ direct_recomputes = 0
    /\ submit_calls = 0

NextStable ==
    \/ AllIdle /\ LessonUpdate
    \/ AllIdle /\ SubmitStart("p1", Users, QuizIds)
    \/ AllIdle /\ RecomputeStart("p1", Users, Courses)
    \/ QuizStep("p1")

SpecStable == InitStable /\ [][NextStable]_vars

\* Assignments: due dates and approval deadlines on the clock, one request at
\* a time, the clock advancing between any two store operations.
DueDates == 1 .. (MaxClock - 1)
ApprovalTimes == 1 .. MaxClock

AssignStep(p) ==
    \/ CreateSubmission_GetEnrolledCourses(p)
    \/ CreateSubmission_FindExisting(p)
    \/ CreateSubmission_CheckDue(p)
    \/ CreateSubmission_GetApproval(p)
    \/ CreateSubmission_Insert(p)
    \/ ApproveLate_Insert(p)

NextAssign ==
    \/ Tick
    \/ AllIdle /\ \E c \in Courses, due_date \in DueDates : create_assignment("a1", c, due_date)
    \/ AllIdle /\ EnrollStart("p1", Users, Courses)
    \/ EnrollStep("p1")
    \/ AllIdle /\ \E u \in Users, c \in Courses, a \in AssignmentIds :
                     CreateSubmission_GetAssignment("p1", u, c, a)
    \/ AllIdle /\ \E u \in Users, approved_until \in ApprovalTimes :
                     ApproveLate_DeleteMany("p1", u, "a1", approved_until)
    \/ AssignStep("p1")

SpecAssign == Init /\ [][NextAssign]_vars

\* Two assignment requests in flight, interleaved at their store operations:
\* assignment a1 of course c1 exists and u1 is enrolled in c1.
InitAssignConc ==
    \E due_date \in DueDates :
       /\ quizzes = [q \in QuizIds |-> AbsentQuiz]
       /\ quiz_questions = [q \in QuizIds |-> << >>]
       /\ user_quiz_completions = << >>
       /\ enrollments = << NewEnrollment("u1", "c1") >>
       /\ assignments = [ a \in AssignmentIds |->
                            IF a = "a1"
                            THEN [ state |-> "present", course_id |-> "c1",
                                   due_date |-> due_date ]
                            ELSE AbsentAssignment ]
       /\ submissions = << >>
       /\ late_approvals = << >>
       /\ extension_requests = << >>
       /\ clock = 0
       /\ pc = [p \in Procs |-> "idle"]
       /\ local = [p \in Procs |-> IdleLocal]
       /\ last_call = NoCall
       /\ direct_recomputes = 0
       /\ submit_calls = 0

NextAssignConc ==
    \/ Tick
    \/ \E p \in Procs : CreateSubmission_GetAssignment(p, "u1", "c1", "a1")
    \/ \E p \in Procs, approved_until \in ApprovalTimes :
          ApproveLate_DeleteMany(p, "u1", "a1", approved_until)
    \/ \E p \in Procs : AssignStep(p)

SpecAssignConc == InitAssignConc /\ [][NextAssignConc]_vars

\* Late approvals, one approve-late call at a time, starting from any stored
\* approvals of (u1, a1) and (u1, a2): several approvals of one pair are left
\* behind by interleaved approve-late calls.
StoredApprovals ==
    [ user_id : Users, assignment_id : AssignmentIds, approved_until : ApprovalTimes ]

InitApprove ==
    /\ quizzes = [q \in QuizIds |-> AbsentQuiz]
    /\ quiz_questions = [q \in QuizIds |-> << >>]
    /\ user_quiz_completions = << >>
    /\ enrollments = << >>
    /\ assignments = [a \in AssignmentIds |-> AbsentAssignment]
    /\ submissions = << >>
    /\ \E n \in 0 .. MaxApprovals : late_approvals \in [ 1 .. n -> StoredApprovals ]
    /\ extension_requests = << >>
    /\ clock = 0
    /\ pc = [p \in Procs |-> "idle"]
    /\ local = [p \in Procs |-> IdleLocal]
    /\ last_call = NoCall
    /\ direct_recomputes = 0
    /\ submit_calls = 0

NextApprove ==
    \/ Tick
    \/ AllIdle /\ \E u \in Users, a \in AssignmentIds, approved_until \in ApprovalTimes :
                     ApproveLate_DeleteMany("p1", u, a, approved_until)
    \/ ApproveLate_Insert("p1")

SpecApprove == InitApprove /\ [][NextApprove]_vars

\* Extension requests next to submissions and late approvals, one request at
\* a time: assignment a1 of course c1, due at 1, exists and u1 is enrolled in
\* c1; late approvals run out at 1 or at the end of the clock.
InitExtension ==
    /\ InitAssignConc
    /\ assignments["a1"].due_date = 1

NextExtension ==
    \/ Tick
    \/ AllIdle /\ CreateSubmission_GetAssignment("p1", "u1", "c1", "a1")
    \/ AllIdle /\ \E approved_until \in { 1, MaxClock } :
                     ApproveLate_DeleteMany("p1", "u1", "a1", approved_until)
    \/ AssignStep("p1")
    \/ AllIdle /\ \E a \in AssignmentIds : request_extension("u1", a, MaxClock)
    \/ AllIdle /\ \E i \in 1 .. MaxRequests, status \in ExtensionStatuses :
                     update_extension_request(i, status)

SpecExtension == InitExtension /\ [][NextExtension]_vars

\* The history of attempts: quiz q1 of course c1 is created, replaced by
\* update_quiz and deleted between submissions and recomputations, one request
\* at a time.
NextHistory ==
    \/ AllIdle /\ QuizAdmin({"q1"}, {"c1"})
    \/ AllIdle /\ \E q \in QuizIds, ps \in GradePassingScores :
                     \E questions \in MainQuestionSets : update_quiz(q, "c1", ps, questions)
    \/ AllIdle /\ SubmitStart("p1", Users, {"q1"})
    \/ AllIdle /\ RecomputeStart("p1", Users, {"c1"})
    \/ QuizStep("p1")

SpecHistory == Init /\ [][NextHistory]_vars

\* Missing entities: quiz q2 is never created, and create_quiz stores whatever
\* course_id it is given, also one of no course; one request at a time.
NextMissing ==
    \/ AllIdle /\ QuizAdmin({"q1"}, {"c1", MissingCourse})
    \/ AllIdle /\ SubmitStart("p1", Users, QuizIds)
    \/ AllIdle /\ RecomputeStart("p1", Users, {"c1", MissingCourse})
    \/ QuizStep("p1")

SpecMissing == Init /\ [][NextMissing]_vars

\* Grading: one quiz with any of the question sets and passing scores, and one
\* submission of any sheet.
InitGrade ==
    \E n \in 1 .. MaxQuestions, off \in 0 .. 2, ps \in GradePassingScores :
       /\ quizzes = [ q \in QuizIds |->
                        IF q = "q1"
                        THEN [ state |-> "present", course_id |-> "c1", passing_score |-> ps ]
                        ELSE AbsentQuiz ]
       /\ quiz_questions = [ q \in QuizIds |->
                               IF q = "q1" THEN GradeQuestionSet(n, off) ELSE << >> ]
       /\ user_quiz_completions = << >>
       /\ enrollments = << >>
       /\ assignments = [a \in AssignmentIds |-> AbsentAssignment]
       /\ submissions = << >>
       /\ late_approvals = << >>
       /\ extension_requests = << >>
       /\ clock = 0
       /\ pc = [p \in Procs |-> "idle"]
       /\ local = [p \in Procs |-> IdleLocal]
       /\ last_call = NoCall
       /\ direct_recomputes = 0
       /\ submit_calls = 0

GradeStart ==
    /\ user_quiz_completions = << >>
    /\ \E choice \in [ DOMAIN quiz_questions["q1"] -> 0 .. 3 ] :
          SubmitQuiz_GetQuiz("p1", "u1", "q1", GradeSheet(quiz_questions["q1"], choice))

NextGrade ==
    \/ GradeStart
    \/ QuizStep("p1")

SpecGrade == InitGrade /\ [][NextGrade]_vars

\* Grading of a quiz one of whose stored questions has a question_type outside
\* QuestionTypeEnum.  get_quiz_questions returns the documents of
\* quiz_questions as they are, and grade_question takes the type as a string;
\* create_quiz and update_quiz validate the type, so such a document is one
\* written to the collection by another writer.
ForeignQuestionSet(n, off, k) ==
    [ i \in 1 .. n |->
        IF i = k THEN Question(QuestionIds[i], "essay", << "a" >>, << >>)
        ELSE GradeQuestion(i, off) ]

InitForeign ==
    \E n \in 1 .. MaxQuestions, off \in 0 .. 2, ps \in GradePassingScores :
       \E k \in 1 .. n :
          /\ quizzes = [ q \in QuizIds |->
                           IF q = "q1"
                           THEN [ state |-> "present", course_id |-> "c1",
                                  passing_score |-> ps ]
                           ELSE AbsentQuiz ]
          /\ quiz_questions = [ q \in QuizIds |->
                                  IF q = "q1" THEN ForeignQuestionSet(n, off, k)
                                  ELSE << >> ]
          /\ user_quiz_completions = << >>
          /\ enrollments = << >>
          /\ assignments = [a \in AssignmentIds |-> AbsentAssignment]
          /\ submissions = << >>
          /\ late_approvals = << >>
          /\ extension_requests = << >>
          /\ clock = 0
          /\ pc = [p \in Procs |-> "idle"]
          /\ local = [p \in Procs |-> IdleLocal]
          /\ last_call = NoCall
          /\ direct_recomputes = 0
          /\ submit_calls = 0

SpecForeign == InitForeign /\ [][NextGrade]_vars

\* Grading of coding questions: one quiz with one coding question whose test
\* cases expect any of these outputs, and one submission of any sheet.
CodingExpected == { << "a" >>, << "A", "b" >>, << "b", " ", "a" >>, << >>, NotAString }

InitCoding ==
    \E n \in 0 .. MaxTests, ps \in GradePassingScores :
       \E test_cases \in [ 1 .. n -> CodingExpected ] :
          /\ quizzes = [ q \in QuizIds |->
                           IF q = "q1"
                           THEN [ state |-> "present", course_id |-> "c1",
                                  passing_score |-> ps ]
                           ELSE AbsentQuiz ]
          /\ quiz_questions = [ q \in QuizIds |->
                                  IF q = "q1"
                                  THEN << Question("k1", "coding", << >>, test_cases) >>
                                  ELSE << >> ]
          /\ user_quiz_completions = << >>
          /\ enrollments = << >>
          /\ assignments = [a \in AssignmentIds |-> AbsentAssignment]
          /\ submissions = << >>
          /\ late_approvals = << >>
          /\ extension_requests = << >>
          /\ clock = 0
          /\ pc = [p \in Procs |-> "idle"]
          /\ local = [p \in Procs |-> IdleLocal]
          /\ last_call = NoCall
          /\ direct_recomputes = 0
          /\ submit_calls = 0

SpecCoding == InitCoding /\ [][NextGrade]_vars

\* QuizCRUD.update_quiz, one step per awaited store operation.
\* existing_quiz = await db.quizzes.find_one({"_id": quiz_id})
UpdateQuiz_FindOne(p, q, c, passing_score, questions) ==
    /\ pc[p] = "idle"
    /\ \/ /\ ~QuizExists(q)
          /\ Return(p, Failure("update_quiz", "", q, 404, "Quiz not found"))
       \/ /\ QuizExists(q)
          /\ Goto(p, "uq_update",
                  [ IdleLocal EXCEPT !.quiz_id = q, !.course_id = c,
                                     !.passing_score = passing_score,
                                     !.questions = questions ])
    /\ UNCHANGED << quizVars, enrollments, assignVars, clock, direct_recomputes,
                    submit_calls >>

\* await db.quizzes.update_one({"_id": quiz_id}, {"$set": update_data})
UpdateQuiz_UpdateOne(p) ==
    /\ pc[p] = "uq_update"
    /\ LET q == local[p].quiz_id
       IN  quizzes' = IF QuizExists(q)
                      THEN [quizzes EXCEPT ![q] =
                              [ state |-> "present", course_id |-> local[p].course_id,
                                passing_score |-> local[p].passing_score ]]
                      ELSE quizzes
    /\ Goto(p, "uq_delete", local[p])
    /\ UNCHANGED << quiz_questions, user_quiz_completions, enrollments, assignVars,
                    clock, direct_recomputes, submit_calls >>

\* await db.quiz_questions.delete_many({"quiz_id": quiz_id})
UpdateQuiz_DeleteMany(p) ==
    /\ pc[p] = "uq_delete"
    /\ quiz_questions' = [quiz_questions EXCEPT ![local[p].quiz_id] = << >>]
    /\ Goto(p, "uq_insert", local[p])
    /\ UNCHANGED << quizzes, user_quiz_completions, enrollments, assignVars,
                    clock, direct_recomputes, submit_calls >>

\* if questions: await db.quiz_questions.insert_many(questions)
UpdateQuiz_InsertMany(p) ==
    /\ pc[p] = "uq_insert"
    /\ quiz_questions' = [quiz_questions EXCEPT ![local[p].quiz_id] =
                             @ \o local[p].questions]
    /\ Goto(p, "uq_return", [ local[p] EXCEPT !.questions = << >> ])
    /\ UNCHANGED << quizzes, user_quiz_completions, enrollments, assignVars,
                    clock, direct_recomputes, submit_calls >>

\* updated_quiz = await db.quizzes.find_one({"_id": quiz_id}); the route
\* answers 404 when it is None.
UpdateQuiz_Return(p) ==
    /\ pc[p] = "uq_return"
    /\ IF QuizExists(local[p].quiz_id)
       THEN Return(p, Response("update_quiz", "", local[p].quiz_id, 200))
       ELSE Return(p, Failure("update_quiz", "", local[p].quiz_id, 404, "Quiz not found"))
    /\ UNCHANGED << quizVars, enrollments, assignVars, clock, direct_recomputes,
                    submit_calls >>

UpdateQuizStep(p) ==
    \/ UpdateQuiz_UpdateOne(p)
    \/ UpdateQuiz_DeleteMany(p)
    \/ UpdateQuiz_InsertMany(p)
    \/ UpdateQuiz_Return(p)

\* Two requests in flight, interleaved at their store operations.
NextConc ==
    \/ QuizAdmin({"q1"}, {"c1"})
    \/ \E p \in Procs : SubmitStart(p, {"u1"}, {"q1"})
    \/ \E p \in Procs : QuizStep(p)
    \/ \E p \in Procs : EnrollStart(p, {"u1"}, {"c1"})
    \/ \E p \in Procs : EnrollStep(p)

SpecConc == Init /\ [][NextConc]_vars

\* A submission of quiz q1 in slot p1 while the instructor replaces the quiz
\* in slot p2.  The quiz starts with the question set OldQuestions, as a
\* completed create_quiz leaves it; each update posts one of the
\* ReplacementQuestionSets, whose questions get fresh ids.
OldQuestions == MainQuestions

ReplacementQuestionSets ==
    { << Question("k3", "multiple_choice", << "b" >>, << >>),
         Question("k4", "true_false", << "f" >>, << >>),
         Question("k5", "multiple_choice", << "c" >>, << >>) >>,
      << Question("k4", "true_false", << "t" >>, << >>) >> }

ReplacePassingScores == { 0, 7500 }

InitReplace ==
    /\ quizzes = [ q \in QuizIds |->
                     IF q = "q1"
                     THEN [ state |-> "present", course_id |-> "c1", passing_score |-> 7500 ]
                     ELSE AbsentQuiz ]
    /\ quiz_questions = [ q \in QuizIds |-> IF q = "q1" THEN OldQuestions ELSE << >> ]
    /\ user_quiz_completions = << >>
    /\ enrollments = << >>
    /\ assignments = [a \in AssignmentIds |-> AbsentAssignment]
    /\ submissions = << >>
    /\ late_approvals = << >>
    /\ extension_requests = << >>
    /\ clock = 0
    /\ pc = [p \in Procs |-> "idle"]
    /\ local = [p \in Procs |-> IdleLocal]
    /\ last_call = NoCall
    /\ direct_recomputes = 0
    /\ submit_calls = 0

ReplaceStart ==
    \E ps \in ReplacePassingScores, questions \in ReplacementQuestionSets :
       UpdateQuiz_FindOne("p2", "q1", "c1", ps, questions)

ReplaceSubmitStart ==
    \E questions \in {OldQuestions} \cup ReplacementQuestionSets :
       \E answers \in MainSheets(questions) :
          SubmitQuiz_GetQuiz("p1", "u1", "q1", answers)

NextReplace ==
    \/ ReplaceStart
    \/ UpdateQuizStep("p2")
    \/ ReplaceSubmitStart
    \/ QuizStep("p1")

SpecReplace == InitReplace /\ [][NextReplace]_vars

-----------------------------------------------------------------------------
(* Attempt numbering.                                                      *)

\* The attempts stored for one user and one quiz, in insertion order.
AttemptsOf(u, q) ==
    LET Mine(d) == d.user_id = u /\ d.quiz_id = q
    IN  SelectSeq(user_quiz_completions, Mine)

\* C1: when submissions run one after another, the k-th attempt recorded for a
\* user and a quiz carries attempt_number k (1, 2, 3, ... in order).
C1_SequentialAttemptNumbers ==
    \A u \in Users, q \in QuizIds :
       \A k \in 1 .. Len(AttemptsOf(u, q)) : AttemptsOf(u, q)[k].attempt_number = k

\* Two sequential submissions of the same quiz by the same user are stored.
C1_Witness ==
    \E u \in Users, q \in QuizIds :
       /\ Len(AttemptsOf(u, q)) = 2
       /\ AttemptsOf(u, q)[2].attempt_number = 2
       /\ AllIdle

\* C2: in every reachable state, interleaved submissions included, no two stored
\* attempts of the same user and quiz share an attempt_number.
C2_UniqueAttemptNumbers ==
    \A i, j \in DOMAIN user_quiz_completions :
       ( /\ i # j
         /\ user_quiz_completions[i].user_id = user_quiz_completions[j].user_id
         /\ user_quiz_completions[i].quiz_id = user_quiz_completions[j].quiz_id )
       => user_quiz_completions[i].attempt_number # user_quiz_completions[j].attempt_number

-----------------------------------------------------------------------------
(* Scoring.                                                                *)

\* C3: for a graded submission of a quiz with N >= 1 questions the number of
\* questions counted correct is between 0 and N, the score is exactly
\* correct_count / N * 100, and passed holds exactly when the score is at least
\* the quiz's passing score; the stored attempt and the response carry that score
\* and that outcome.  With 3 of 4 questions correct and passing score 75 the
\* score is 75.0 and the attempt passes.
C3_ScoreAndPassed ==
    /\ \A p \in Procs :
          pc[p] \in {"sq_count", "sq_insert"} =>
             LET n == Len(quiz_questions[local[p].quiz_id])
                 c == local[p].correct_count
                 passing_score == quizzes[local[p].quiz_id].passing_score
             IN  /\ n >= 1
                 /\ 0 <= c /\ c <= n
                 /\ local[p].score * n = c * 100 * (100 * ScoreDen)
                 /\ local[p].passed <=> (local[p].score >= passing_score * ScoreDen)
                 /\ (n = 4 /\ c = 3 /\ passing_score = 7500)
                       => (local[p].score = 75 * (100 * ScoreDen) /\ local[p].passed)
    /\ \A i \in DOMAIN user_quiz_completions :
          LET d == user_quiz_completions[i]
              n == Len(quiz_questions[d.quiz_id])
          IN  /\ \E c \in 0 .. n : d.score * n = c * 100 * (100 * ScoreDen)
              /\ d.passed <=> (d.score >= quizzes[d.quiz_id].passing_score * ScoreDen)
    /\ (last_call.op = "submit_quiz" /\ last_call.code = 200) =>
          \E i \in DOMAIN user_quiz_completions :
             LET d == user_quiz_completions[i]
             IN  /\ d.user_id = last_call.user_id /\ d.quiz_id = last_call.target
                 /\ last_call.passed = d.passed
                 /\ 2 * (100 * ScoreDen) * last_call.score <= 2 * 100 * d.score + 100 * ScoreDen
                 /\ 2 * (100 * ScoreDen) * last_call.score >= 2 * 100 * d.score - 100 * ScoreDen

\* A submission with 3 of 4 questions correct against passing score 75 has
\* returned: score 75.00, passed.
C3_Witness ==
    /\ last_call.op = "submit_quiz" /\ last_call.code = 200
    /\ Len(quiz_questions["q1"]) = 4
    /\ quizzes["q1"].passing_score = 7500
    /\ Len(user_quiz_completions) = 1
    /\ user_quiz_completions[1].score = 75 * (100 * ScoreDen)
    /\ last_call.score = 7500
    /\ last_call.passed

-----------------------------------------------------------------------------
(* Course progress and enrollment status.                                  *)

\* The slot p completes a get_course_progress computation in this step.
RecomputeCompletes(p) == pc[p] = "gcp_update" /\ pc'[p] = "idle"

\* C4: the overall progress of every recomputation is between 0 and 100
\* inclusive, in the stored enrollment and in the response.
C4_OverallProgressInRange ==
    /\ \A i \in DOMAIN enrollments :
          /\ 0 <= enrollments[i].progress_percentage
          /\ enrollments[i].progress_percentage <= Pct(100)
    /\ last_call.op \in {"get_course_progress", "submit_quiz"} =>
          /\ 0 <= last_call.stored_progress /\ last_call.stored_progress <= Pct(100)
          /\ 0 <= last_call.overall_progress /\ last_call.overall_progress <= 100 * 100

\* A recomputation that counted more attempts than the course has quizzes, with
\* full lesson progress, has stored exactly 100.
C4_Witness ==
    /\ last_call.op = "get_course_progress"
    /\ last_call.completed_quizzes > last_call.total_quizzes
    /\ last_call.total_quizzes > 0
    /\ last_call.stored_progress = Pct(100)
    /\ \E i \in DOMAIN enrollments : enrollments[i].progress_percentage = Pct(100)

\* C5: get_course_progress called twice in a row for the same user and course,
\* with nothing else in between, returns the same overall progress and status the
\* second time and leaves the stored enrollment as the first call left it.
C5_RecomputeIdempotent ==
    [][ \A p \in Procs :
          ( /\ RecomputeCompletes(p)
            /\ local[p].via = "get_course_progress"
            /\ last_call.op = "get_course_progress"
            /\ last_call.user_id = local[p].user_id
            /\ last_call.target = local[p].course_id )
          => /\ last_call'.overall_progress = last_call.overall_progress
             /\ last_call'.status = last_call.status
             /\ enrollments' = enrollments ]_vars

StatusRule(progress, status) ==
    /\ progress = 0 => status = "not_started"
    /\ (0 < progress /\ progress < Pct(100)) => status = "in_progress"
    /\ progress >= Pct(100) => status = "completed"

\* C8: when a get_course_progress call completes, the stored enrollment of the
\* user and course has the status its stored progress determines (0:
\* not_started, above 0 and below 100: in_progress, 100 or more: completed) and
\* the response carries the stored status.
C8_StatusFollowsProgress ==
    [][ \A p \in Procs :
          RecomputeCompletes(p) =>
             /\ \E i \in DOMAIN enrollments' :
                   /\ enrollments'[i].user_id = local[p].user_id
                   /\ enrollments'[i].course_id = local[p].course_id
                   /\ enrollments'[i].key_type = "str"
             /\ \A i \in DOMAIN enrollments' :
                   ( /\ enrollments'[i].user_id = local[p].user_id
                     /\ enrollments'[i].course_id = local[p].course_id
                     /\ enrollments'[i].key_type = "str" )
                   => /\ StatusRule(enrollments'[i].progress_percentage,
                                    enrollments'[i].status)
                      /\ last_call'.status = enrollments'[i].status
                      /\ last_call'.stored_progress = enrollments'[i].progress_percentage ]_vars

\* A recomputation has just returned not_started for an enrollment stored with
\* progress 0, and another enrollment is stored as completed.
C8_Witness ==
    /\ last_call.op = "get_course_progress"
    /\ last_call.status = "not_started"
    /\ \E i \in DOMAIN enrollments :
          /\ enrollments[i].user_id = last_call.user_id
          /\ enrollments[i].course_id = last_call.target
          /\ enrollments[i].status = "not_started"
          /\ enrollments[i].progress_percentage = 0
    /\ \E j \in DOMAIN enrollments : enrollments[j].status = "completed"

\* C9: every stored enrollment, one created by create_enrollment included, has
\* status not_started, in_progress or completed.
C9_StatusInLifecycle ==
    \A i \in DOMAIN enrollments :
       enrollments[i].status \in {"not_started", "in_progress", "completed"}

-----------------------------------------------------------------------------
(* Deadlines.                                                              *)

\* C10: a submission made after the assignment's due date is recorded only if,
\* when the handler checks, a late approval of that user and assignment with
\* approved_until later than the current time exists; without one the request is
\* rejected and nothing is recorded, with one the handler goes on to record it.
C10_PastDueNeedsApproval ==
    [][ /\ \A p \in Procs :
             LET u == local[p].user_id
                 a == local[p].assignment_id
                 active == \E i \in DOMAIN late_approvals :
                              /\ late_approvals[i].user_id = u
                              /\ late_approvals[i].assignment_id = a
                              /\ late_approvals[i].approved_until > clock
             IN  /\ (pc[p] = "cs_due" /\ pc'[p] # "cs_due") =>
                       IF clock > assignments[a].due_date
                       THEN pc'[p] = "cs_approval"
                       ELSE pc'[p] = "cs_insert" /\ ~local'[p].is_past_due
                 /\ (pc[p] = "cs_approval" /\ pc'[p] # "cs_approval") =>
                       IF active
                       THEN pc'[p] = "cs_insert" /\ local'[p].approval
                       ELSE pc'[p] = "idle" /\ last_call'.code = 400
                 /\ (pc[p] = "cs_insert" /\ pc'[p] # "cs_insert") =>
                       /\ local[p].is_past_due => local[p].approval
                       /\ submissions' = Append(submissions,
                                                [ user_id |-> u, assignment_id |-> a,
                                                  submitted_at |-> clock ])
        /\ submissions' # submissions =>
              \E p \in Procs : pc[p] = "cs_insert" /\ pc'[p] # "cs_insert" ]_vars

\* A submission made after the due date has been recorded, under an approval
\* that was still running when it was recorded.
C10_Witness ==
    /\ last_call.op = "create_submission" /\ last_call.code = 200
    /\ \E i \in DOMAIN submissions :
          /\ submissions[i].user_id = last_call.user_id
          /\ submissions[i].assignment_id = last_call.target
          /\ submissions[i].submitted_at > assignments[submissions[i].assignment_id].due_date
          /\ \E j \in DOMAIN late_approvals :
                /\ late_approvals[j].user_id = submissions[i].user_id
                /\ late_approvals[j].assignment_id = submissions[i].assignment_id
                /\ late_approvals[j].approved_until > submissions[i].submitted_at

\* C11: when a submission of (user, assignment) is already stored, the
\* existence check of _create_submission ends the request with 400
\* "Assignment already submitted" and leaves the submissions as they are,
\* whatever the clock, the due date and the stored late approvals; the
\* handler never reaches the due-date check, the approval query or the insert
\* while such a submission is stored, and no stored submission is ever changed
\* or removed.
C11_AlreadySubmittedRejected ==
    [][ /\ \A p \in Procs :
             LET u == local[p].user_id
                 a == local[p].assignment_id
                 stored == \E i \in DOMAIN submissions :
                              /\ submissions[i].user_id = u
                              /\ submissions[i].assignment_id = a
             IN  /\ (pc[p] = "cs_existing" /\ stored /\ pc'[p] # "cs_existing") =>
                       /\ pc'[p] = "idle"
                       /\ last_call' = Failure("create_submission", u, a, 400,
                                               "Assignment already submitted")
                       /\ submissions' = submissions
                 /\ pc[p] \in {"cs_due", "cs_approval", "cs_insert"} => ~stored
        /\ \A i \in DOMAIN submissions :
             i \in DOMAIN submissions' /\ submissions'[i] = submissions[i]
      ]_vars

\* A resubmission has just been rejected as already submitted while the
\* assignment is past due and the user holds an active late approval; the
\* stored submission was made before the due date.
C11_Witness ==
    /\ last_call = Failure("create_submission", "u1", "a1", 400,
                           "Assignment already submitted")
    /\ assignments["a1"].state = "present"
    /\ clock > assignments["a1"].due_date
    /\ get_active_late_approval("u1", "a1", clock)
    /\ Len(submissions) = 1
    /\ submissions[1].submitted_at <= assignments["a1"].due_date

\* C12: in every reachable state at most one submission is stored per
\* (user, assignment) pair, also when two _create_submission calls of the
\* same user for the same assignment are interleaved at their store
\* operations.
C12_OneSubmissionPerPair ==
    \A i, j \in DOMAIN submissions :
       (/\ submissions[i].user_id = submissions[j].user_id
        /\ submissions[i].assignment_id = submissions[j].assignment_id) => i = j

\* C14: at every instant at most one late approval with approved_until > now
\* is stored per (user, assignment) pair, also during and after two
\* interleaved approve-late calls for the pair.
C14_OneActiveApproval ==
    \A i, j \in DOMAIN late_approvals :
       (/\ late_approvals[i].user_id = late_approvals[j].user_id
        /\ late_approvals[i].assignment_id = late_approvals[j].assignment_id
        /\ late_approvals[i].approved_until > clock
        /\ late_approvals[j].approved_until > clock) => i = j

\* The stored approvals of the pair, and those of all other pairs, in order.
ApprovalsOfPair(approvals, u, a) ==
    LET Same(d) == d.user_id = u /\ d.assignment_id = a
    IN  SelectSeq(approvals, Same)

ApprovalsOfOthers(approvals, u, a) ==
    LET Other(d) == ~(d.user_id = u /\ d.assignment_id = a)
    IN  SelectSeq(approvals, Other)

\* C13: when a create_late_approval_crud call for (user, assignment) that ran
\* alone completes, exactly one late approval of the pair is stored, the one
\* the call inserted, however many were stored before; and neither of its two
\* store operations changes the approvals of other pairs.
C13_ApprovalSupersedes ==
    [][ \A p \in Procs :
          /\ (pc[p] = "al_insert" /\ pc'[p] = "idle") =>
                /\ ApprovalsOfPair(late_approvals', local[p].user_id,
                                   local[p].assignment_id)
                     = << [ user_id |-> local[p].user_id,
                            assignment_id |-> local[p].assignment_id,
                            approved_until |-> local[p].approved_until ] >>
                /\ ApprovalsOfOthers(late_approvals', local[p].user_id,
                                     local[p].assignment_id)
                     = ApprovalsOfOthers(late_approvals, local[p].user_id,
                                         local[p].assignment_id)
          /\ (pc[p] = "idle" /\ pc'[p] = "al_insert") =>
                ApprovalsOfOthers(late_approvals', local'[p].user_id,
                                  local'[p].assignment_id)
                  = ApprovalsOfOthers(late_approvals, local'[p].user_id,
                                      local'[p].assignment_id)
      ]_vars

\* An approve-late call for (u1, a1) has just completed: its approval is the
\* only one of the pair and the two approvals of (u1, a2) are still stored.
C13_Witness ==
    /\ last_call = Response("approve_late_submission", "u1", "a1", 200)
    /\ Len(ApprovalsOfPair(late_approvals, "u1", "a1")) = 1
    /\ Len(ApprovalsOfPair(late_approvals, "u1", "a2")) = 2
    /\ late_approvals[Len(late_approvals)].assignment_id = "a1"

\* C15: a request_extension or update_extension_request call changes only
\* extension requests: it appends one request, or sets status and updated_at
\* of one stored request, and leaves late approvals, submissions, assignments
\* and enrollments as they are; and a past-due submission of a user without an
\* active late approval is rejected whatever extension requests are stored,
\* approved ones included.
C15_ExtensionRequestsAreSeparate ==
    [][ /\ (\/ extension_requests' # extension_requests
            \/ /\ last_call' # last_call
               /\ last_call'.op \in {"request_extension", "update_extension_request"}) =>
              /\ late_approvals' = late_approvals
              /\ submissions' = submissions
              /\ assignments' = assignments
              /\ enrollments' = enrollments
              /\ \/ extension_requests' = extension_requests
                 \/ /\ Len(extension_requests') = Len(extension_requests) + 1
                    /\ SubSeq(extension_requests', 1, Len(extension_requests))
                         = extension_requests
                 \/ /\ Len(extension_requests') = Len(extension_requests)
                    /\ \E i \in DOMAIN extension_requests :
                          /\ \A j \in DOMAIN extension_requests \ {i} :
                                extension_requests'[j] = extension_requests[j]
                          /\ extension_requests'[i] =
                                [ extension_requests[i] EXCEPT
                                    !.status = extension_requests'[i].status,
                                    !.updated_at = extension_requests'[i].updated_at ]
        /\ \A p \in Procs :
              (/\ pc[p] = "cs_approval"
               /\ pc'[p] # "cs_approval"
               /\ ~\E i \in DOMAIN late_approvals :
                      /\ late_approvals[i].user_id = local[p].user_id
                      /\ late_approvals[i].assignment_id = local[p].assignment_id
                      /\ late_approvals[i].approved_until > clock) =>
                 /\ pc'[p] = "idle"
                 /\ last_call'.op = "create_submission"
                 /\ last_call'.code = 400
                 /\ submissions' = submissions
      ]_vars

\* A past-due submission of u1 for a1 has just been rejected for want of an
\* active late approval while an approved extension request of u1 for a1,
\* asking for a date that has not passed, is stored.
C15_Witness ==
    /\ last_call = Failure("create_submission", "u1", "a1", 400,
                           "Assignment is past due date and no active late submission approval found")
    /\ submissions = << >>
    /\ \E i \in DOMAIN extension_requests :
          /\ extension_requests[i].user_id = "u1"
          /\ extension_requests[i].assignment_id = "a1"
          /\ extension_requests[i].status = "approved"
          /\ extension_requests[i].requested_until > clock

\* C16: in every reachable state at most one enrollment is stored per
\* (user, course) pair, also when explicit enrollment and the auto-creation
\* of progress recomputation, or two recomputations, are interleaved.
C16_OneEnrollmentPerPair ==
    \A i, j \in DOMAIN enrollments :
       (/\ enrollments[i].user_id = enrollments[j].user_id
        /\ enrollments[i].course_id = enrollments[j].course_id) => i = j

\* C17: a step of get_course_progress before the computation is stored adds
\* an enrollment only when none of its (user, course) pair is stored, and then
\* adds exactly one, with progress 0 and status not_started; when an
\* enrollment of the pair is stored it adds none.
C17_AutoCreation ==
    [][ \A p \in Procs :
          (/\ pc[p] \in {"gcp_quizzes", "gcp_count", "gcp_find", "gcp_insert"}
           /\ pc'[p] # pc[p]) =>
             LET stored == \E i \in DOMAIN enrollments :
                              /\ enrollments[i].user_id = local[p].user_id
                              /\ enrollments[i].course_id = local[p].course_id
             IN  \/ enrollments' = enrollments
                 \/ /\ ~stored
                    /\ Len(enrollments') = Len(enrollments) + 1
                    /\ SubSeq(enrollments', 1, Len(enrollments)) = enrollments
                    /\ enrollments'[Len(enrollments')].user_id = local[p].user_id
                    /\ enrollments'[Len(enrollments')].course_id = local[p].course_id
                    /\ enrollments'[Len(enrollments')].progress_percentage = 0
                    /\ enrollments'[Len(enrollments')].status = "not_started"
      ]_vars

\* C18: the quiz progress a completed get_course_progress computation reports
\* is min(100, distinct / total * 100), or 0 for a course without quizzes,
\* where distinct is the number of quizzes of the course of which the user
\* has stored at least one attempt and total the number of quizzes of the
\* course; and the reported completed_quizzes does not exceed total_quizzes.
C18_DistinctQuizzesCounted ==
    [][ \A p \in Procs :
          RecomputeCompletes(p) =>
             LET u == local[p].user_id
                 course_quizzes == CourseQuizIds(local[p].course_id)
                 total == Cardinality(course_quizzes)
                 distinct == Cardinality({ q \in course_quizzes :
                                \E i \in DOMAIN user_quiz_completions :
                                   /\ user_quiz_completions[i].user_id = u
                                   /\ user_quiz_completions[i].quiz_id = q })
                 expected == IF total > 0
                             THEN Min(Pct(100), (distinct * Pct(100)) \div total)
                             ELSE 0
             IN  /\ last_call'.quiz_progress = Round2(expected, PUnit)
                 /\ last_call'.total_quizzes = total
                 /\ last_call'.completed_quizzes <= last_call'.total_quizzes
      ]_vars

\* C19: the overall progress a completed get_course_progress computation
\* stores and reports is min(100, (lessonProgress + quizProgress) / 2) when
\* the course has at least one quiz and min(100, lessonProgress) when it has
\* none, where lessonProgress is the percentage the enrollment held when the
\* computation read it and quizProgress the quiz progress of that
\* computation.
C19_OverallProgressFormula ==
    [][ \A p \in Procs :
          RecomputeCompletes(p) =>
             LET found == MatchingEnrollments(local[p].user_id, local[p].course_id, "str")
                 total == Cardinality(CourseQuizIds(local[p].course_id))
                 quiz == QuizProgress(local[p].completed_quizzes, total)
             IN  /\ found # {}
                 /\ LET lesson == enrollments[SetMin(found)].progress_percentage
                        expected == IF total > 0
                                    THEN IF lesson + quiz >= 2 * Pct(100)
                                         THEN Pct(100)
                                         ELSE (lesson + quiz) \div 2
                                    ELSE IF lesson >= Pct(100) THEN Pct(100) ELSE lesson
                    IN  /\ total > 0 => (lesson + quiz) % 2 = 0
                        /\ enrollments'[SetMin(found)].progress_percentage = expected
                        /\ last_call'.stored_progress = expected
                        /\ last_call'.overall_progress = Round2(expected, PUnit)
                        /\ last_call'.lesson_progress = Round2(lesson, PUnit)
                        /\ last_call'.quiz_progress = Round2(quiz, PUnit)
      ]_vars

\* A computation for a course with two quizzes, one of them attempted once,
\* and lesson progress 50 has just reported overall progress 50 and status
\* in_progress, and the enrollment stores them.
C19_Witness ==
    /\ last_call.op \in {"get_course_progress", "submit_quiz"}
    /\ last_call.code = 200
    /\ last_call.lesson_progress = 5000
    /\ last_call.completed_quizzes = 1
    /\ last_call.total_quizzes = 2
    /\ last_call.quiz_progress = 5000
    /\ last_call.overall_progress = 5000
    /\ last_call.status = "in_progress"
    /\ \E i \in DOMAIN enrollments :
          /\ enrollments[i].progress_percentage = Pct(50)
          /\ enrollments[i].status = "in_progress"

\* C20: a stored quiz attempt is never modified or removed by any later
\* operation, and user_quiz_completions grows only by the one record each
\* submit_quiz call that reaches its insert appends.
C20_AttemptsAppendOnly ==
    [][ /\ \A i \in DOMAIN user_quiz_completions :
             /\ i \in DOMAIN user_quiz_completions'
             /\ user_quiz_completions'[i] = user_quiz_completions[i]
        /\ \/ user_quiz_completions' = user_quiz_completions
           \/ /\ Len(user_quiz_completions') = Len(user_quiz_completions) + 1
              /\ \E p \in Procs : pc[p] = "sq_insert" /\ pc'[p] # "sq_insert"
        /\ \A p \in Procs :
             (pc[p] = "sq_insert" /\ pc'[p] # "sq_insert") =>
                Len(user_quiz_completions') = Len(user_quiz_completions) + 1
      ]_vars

\* C21: within a submit_quiz call the attempt is inserted first (no enrollment
\* is touched by that step), the recomputation for the course of the quiz
\* starts afterwards with the attempt stored, the progress the call returns
\* counts that attempt, and a submit_quiz call returns 200 only from the
\* final store operation of a recomputation whose steps run once, in order.
C21_RecordThenRecompute ==
    [][ \A p \in Procs :
          LET u == local[p].user_id
              q == local[p].quiz_id
              attempt == \E i \in DOMAIN user_quiz_completions :
                            /\ user_quiz_completions[i].user_id = u
                            /\ user_quiz_completions[i].quiz_id = q
          IN  /\ (pc[p] = "sq_insert" /\ pc'[p] # "sq_insert") =>
                    /\ pc'[p] = "up_quiz"
                    /\ Len(user_quiz_completions') = Len(user_quiz_completions) + 1
                    /\ enrollments' = enrollments
              /\ (pc[p] = "up_quiz" /\ pc'[p] # "up_quiz") =>
                    /\ attempt
                    /\ pc'[p] = "gcp_quizzes"
                    /\ local'[p].course_id = quizzes[q].course_id
              /\ (pc[p] = "gcp_quizzes" /\ pc'[p] # pc[p]) => pc'[p] = "gcp_count"
              /\ (pc[p] = "gcp_count" /\ pc'[p] # pc[p]) => pc'[p] = "gcp_find"
              /\ (pc[p] = "gcp_find" /\ pc'[p] # pc[p]) =>
                    pc'[p] \in {"gcp_insert", "gcp_update"}
              /\ (pc[p] = "gcp_insert" /\ pc'[p] # pc[p]) => pc'[p] = "gcp_update"
              /\ (RecomputeCompletes(p) /\ local[p].via = "submit_quiz") =>
                    /\ attempt
                    /\ local[p].course_id = quizzes[q].course_id
                    /\ last_call'.op = "submit_quiz"
                    /\ last_call'.code = 200
                    /\ ~last_call'.progress_error
                    /\ last_call'.completed_quizzes >= 1
                    /\ last_call'.completed_quizzes =
                         CountCompletions(u, CourseQuizIds(quizzes[q].course_id))
              /\ (/\ pc[p] # "idle" /\ pc'[p] = "idle"
                  /\ last_call'.op = "submit_quiz" /\ last_call'.code = 200) =>
                    pc[p] = "gcp_update"
      ]_vars

\* The second submission of u1 for q1 has just returned: both attempts are
\* stored and the progress it returns counts both.
C21_Witness ==
    /\ last_call.op = "submit_quiz"
    /\ last_call.code = 200
    /\ ~last_call.progress_error
    /\ last_call.completed_quizzes = 2
    /\ Len(AttemptsOf("u1", "q1")) = 2

\* C22: a submit_quiz call for a quiz that is not stored ends with 404 and
\* changes neither the attempts nor the enrollments, and no step of a
\* progress recomputation for a course that does not exist creates or updates
\* an enrollment.
C22_MissingEntityChangesNothing ==
    [][ /\ (/\ AllIdle
            /\ last_call' # last_call
            /\ last_call'.op = "submit_quiz"
            /\ ~QuizExists(last_call'.target)) =>
              /\ last_call'.code = 404
              /\ user_quiz_completions' = user_quiz_completions
              /\ enrollments' = enrollments
        /\ \A p \in Procs :
              (/\ pc[p] \in {"gcp_quizzes", "gcp_count", "gcp_find", "gcp_insert",
                              "gcp_update"}
               /\ pc'[p] # pc[p]
               /\ ~CourseExists(local[p].course_id)) =>
                 enrollments' = enrollments
      ]_vars

\* C23: when submit_quiz grades a sheet, every question of the quiz without an
\* entry in the answers gets exactly one per-question result, with outcome
\* unanswered, and correct_count and the score count exactly the results
\* with outcome correct or passed: an unanswered question adds nothing, like
\* an incorrect or failed one.
C23_UnansweredCountsAsIncorrect ==
    [][ \A p \in Procs :
          (pc[p] = "sq_questions" /\ pc'[p] = "sq_count") =>
             LET questions == quiz_questions[local[p].quiz_id]
                 answers == local[p].answers
                 results == local'[p].detailed_results
                 credited == { j \in DOMAIN results :
                                 results[j].result \in {"correct", "passed"} }
             IN  /\ \A i \in DOMAIN questions :
                       questions[i].id \notin DOMAIN answers =>
                          /\ Cardinality({ j \in DOMAIN results :
                                             results[j].question_id = questions[i].id }) = 1
                          /\ \A j \in DOMAIN results :
                                results[j].question_id = questions[i].id =>
                                   results[j].result = "unanswered"
                 /\ local'[p].correct_count = Cardinality(credited)
                 /\ local'[p].score * Len(questions)
                      = Cardinality(credited) * 100 * 100 * ScoreDen
      ]_vars

\* A sheet has been graded that left one question unanswered, answered one
\* wrongly and one correctly: one point out of three.
C23_Witness ==
    /\ pc["p1"] = "sq_count"
    /\ Len(local["p1"].detailed_results) = 3
    /\ \E i, j, k \in 1 .. 3 :
          /\ local["p1"].detailed_results[i].result = "unanswered"
          /\ local["p1"].detailed_results[j].result \in {"incorrect", "failed"}
          /\ local["p1"].detailed_results[k].result \in {"correct", "passed"}
    /\ local["p1"].correct_count = 1

C25_CodingGrading ==
    [][ \A p \in Procs :
          (pc[p] = "sq_questions" /\ pc'[p] = "sq_count") =>
             LET questions == quiz_questions[local[p].quiz_id]
                 answers == local[p].answers
                 results == local'[p].detailed_results
             IN  \A i \in DOMAIN questions :
                   (/\ questions[i].question_type = "coding"
                    /\ questions[i].id \in DOMAIN answers) =>
                      LET code == answers[questions[i].id]
                          tests == questions[i].test_cases
                          total == Len(tests)
                          Succeeds(t) ==
                             \E k \in 0 .. (Len(code) - Len(tests[t])) :
                                \A m \in 1 .. Len(tests[t]) :
                                   Lower(code[k + m]) = Lower(tests[t][m])
                          succeeded == { t \in 1 .. total : Succeeds(t) }
                          r == grade_coding_question(code, tests)
                      IN  IF \A t \in 1 .. total : tests[t] # NotAString
                          THEN /\ \A t \in 1 .. total : r.details[t] = Succeeds(t)
                               /\ r.passed = (\A t \in 1 .. total : Succeeds(t))
                               /\ r.passed_tests = Cardinality(succeeded)
                               /\ r.total_tests = total
                               /\ IF total > 0
                                  THEN r.score_num * total
                                         = Cardinality(succeeded) * 100 * r.score_den
                                  ELSE r.score_num = 0
                               /\ \E j \in DOMAIN results :
                                     /\ results[j].question_id = questions[i].id
                                     /\ results[j].result =
                                          IF \A t \in 1 .. total : Succeeds(t)
                                          THEN "passed" ELSE "failed"
                                     /\ results[j].details =
                                          [ t \in 1 .. total |->
                                              IF Succeeds(t) THEN "passed" ELSE "failed" ]
                          ELSE /\ ~r.passed
                               /\ \E j \in DOMAIN results :
                                     /\ results[j].question_id = questions[i].id
                                     /\ results[j].result = "failed"
      ]_vars

\* A coding answer has been graded against two test cases: the first
\* succeeded through a match that ignores case, the second did not, and the
\* question is recorded as failed.
C25_Witness ==
    /\ pc["p1"] = "sq_count"
    /\ quiz_questions["q1"] =
         << Question("k1", "coding", << >>, << << "A", "b" >>, << "b", " ", "a" >> >>) >>
    /\ Len(local["p1"].detailed_results) = 1
    /\ local["p1"].detailed_results[1].result = "failed"
    /\ local["p1"].detailed_results[1].details = << "passed", "failed" >>

\* C26: for an answered multiple_choice or true_false question the recorded
\* outcome is correct exactly when the answer and the correct answer are
\* equal after removing leading and trailing blanks and ignoring case, and
\* incorrect otherwise.
C26_TrimmedCaseInsensitiveEquality ==
    [][ \A p \in Procs :
          (pc[p] = "sq_questions" /\ pc'[p] = "sq_count") =>
             LET questions == quiz_questions[local[p].quiz_id]
                 answers == local[p].answers
                 results == local'[p].detailed_results
             IN  \A i \in DOMAIN questions :
                   (/\ questions[i].question_type \in {"multiple_choice", "true_false"}
                    /\ questions[i].id \in DOMAIN answers) =>
                      \E j \in DOMAIN results :
                         /\ results[j].question_id = questions[i].id
                         /\ results[j].result =
                              IF lower(strip(answers[questions[i].id]))
                                   = lower(strip(questions[i].correct_answer))
                              THEN "correct" ELSE "incorrect"
      ]_vars

\* C27: every stored attempt has passed true exactly when its score rounded to
\* two decimals, the value submit_quiz returns, is at least the passing score
\* of the quiz, and the score it stores is that returned value.
C27_PassedMatchesRoundedScore ==
    \A i \in DOMAIN user_quiz_completions :
       LET attempt == user_quiz_completions[i]
           returned == RoundedScore(attempt.score)          \* in hundredths
       IN  QuizExists(attempt.quiz_id) =>
              /\ attempt.passed = (returned >= quizzes[attempt.quiz_id].passing_score)
              /\ attempt.score = returned * ScoreDen

C29_SubmitSeesCompleteQuestionSet ==
    [][ \A p \in Procs :
          (pc[p] = "sq_questions" /\ pc'[p] # "sq_questions") =>
             /\ quiz_questions[local[p].quiz_id]
                   \in {OldQuestions} \cup ReplacementQuestionSets
             /\ pc'[p] = "sq_count"
             /\ Len(local'[p].detailed_results) = Len(quiz_questions[local[p].quiz_id])
      ]_vars

\* C30: when the progress recomputation of a submission fails (the handler
\* ends after the attempt was recorded and before the enrollment was
\* updated), the failing step leaves the recorded attempts as they are, and
\* submit_quiz still answers 200 with the score and the passed flag of the
\* attempt and an error value as its progress.
C30_RecomputeFailureKeepsAttempt ==
    [][ \A p \in Procs :
          (/\ pc[p] \in {"up_quiz", "gcp_quizzes", "gcp_count", "gcp_find", "gcp_insert"}
           /\ local[p].via = "submit_quiz"
           /\ pc'[p] = "idle") =>
             /\ user_quiz_completions' = user_quiz_completions
             /\ last_call'.op = "submit_quiz"
             /\ last_call'.code = 200
             /\ last_call'.progress_error
             /\ last_call'.score = RoundedScore(local[p].score)
             /\ last_call'.passed = local[p].passed
      ]_vars

\* A submission answered with an error value as its progress while the quiz
\* exists (the insert of the enrollment failed), its attempt being stored with
\* the score and the passed flag that were returned.
C30_Witness ==
    /\ last_call.op = "submit_quiz"
    /\ last_call.progress_error
    /\ QuizExists(last_call.target)
    /\ \E i \in DOMAIN user_quiz_completions :
          /\ user_quiz_completions[i].user_id = last_call.user_id
          /\ user_quiz_completions[i].quiz_id = last_call.target
          /\ user_quiz_completions[i].attempt_number >= 1
          /\ RoundedScore(user_quiz_completions[i].score) = last_call.score
          /\ user_quiz_completions[i].passed = last_call.passed

====
